---- MODULE Spec2Model ----
(***************************************************************************)
(* The POP3 server of example/pop3_test/server.py: a listener that loads a *)
(* mailbox snapshot for every accepted connection and starts one thread    *)
(* per connection; a session that authenticates, answers the transaction   *)
(* commands over its snapshot, marks messages for deletion and removes the *)
(* marked files from the mailbox directory when its loop ends.             *)
(*                                                                         *)
(* Mailbox files are "<k>.txt"; a file is modelled by its number k.  A     *)
(* message is the sequence of its byte chunks: text without a line break,  *)
(* or the two-byte line break CRLF.  Reply lines are the strings handed to *)
(* send_line.                                                              *)
(***************************************************************************)
EXTENDS Integers, Sequences, FiniteSets, TLC

\* ---------------------------------------------------------------- bounds
\* Mailbox files are 1.txt .. MaxName.txt.
MaxName == 2
\* The most complete command lines one recv() delivers.
MaxBatch == 2
\* The largest line count given to TOP.
MaxTop == 2

\* The connections clients make: at most one per identifier.
Sessions == {1, 2}

\* ------------------------------------------------------------- constants
USERNAME == "user"
PASSWORD == "pass"
CRLF == "\r\n"

\* ------------------------------------------------------------- utilities
Digit == <<"0", "1", "2", "3", "4", "5", "6", "7", "8", "9">>

RECURSIVE Nat2Str(_)
Nat2Str(n) ==
    IF n < 10 THEN Digit[n + 1] ELSE Nat2Str(n \div 10) \o Digit[(n % 10) + 1]

\* f"{n}" for an integer n.
Str(n) == IF n < 0 THEN "-" \o Nat2Str(0 - n) ELSE Nat2Str(n)

\* f"{n:04d}" for n >= 0.
Pad4(n) ==
    IF n < 10 THEN "000" \o Nat2Str(n)
    ELSE IF n < 100 THEN "00" \o Nat2Str(n)
    ELSE IF n < 1000 THEN "0" \o Nat2Str(n)
    ELSE Nat2Str(n)

\* The decimal digits of n >= 0, most significant first.
RECURSIVE Digits(_)
Digits(n) == IF n < 10 THEN <<n>> ELSE Append(Digits(n \div 10), n % 10)

\* The character codes of the file name "<k>.txt" up to its first
\* character after the number ('.' is 46, '0' is 48).
NameKey(k) == [i \in 1..Len(Digits(k)) |-> 48 + Digits(k)[i]] \o <<46>>

\* String order of two file names, as sorted() compares them.
RECURSIVE KeyLess(_, _)
KeyLess(a, b) ==
    IF a = <<>> THEN b # <<>>
    ELSE IF b = <<>> THEN FALSE
    ELSE IF Head(a) # Head(b) THEN Head(a) < Head(b)
    ELSE KeyLess(Tail(a), Tail(b))

NameLess(j, k) == KeyLess(NameKey(j), NameKey(k))

\* sorted(os.listdir(MAILBOX_DIR)): the names of a directory in string order.
RECURSIVE SortedNames(_)
SortedNames(dir) ==
    IF dir = {} THEN <<>>
    ELSE LET lo == CHOOSE k \in dir : \A j \in dir \ {k} : NameLess(k, j)
         IN  <<lo>> \o SortedNames(dir \ {lo})

\* sorted(self.deleted): lowest first.
RECURSIVE SortedAsc(_)
SortedAsc(S) ==
    IF S = {} THEN <<>>
    ELSE LET lo == CHOOSE i \in S : \A j \in S : i <= j
         IN  <<lo>> \o SortedAsc(S \ {lo})

\* sorted(self.deleted, reverse=True)
RECURSIVE SortedDesc(_)
SortedDesc(S) ==
    IF S = {} THEN <<>>
    ELSE LET hi == CHOOSE i \in S : \A j \in S : j <= i
         IN  <<hi>> \o SortedDesc(S \ {hi})

RECURSIVE SumSeq(_)
SumSeq(q) == IF q = <<>> THEN 0 ELSE Head(q) + SumSeq(Tail(q))

\* -------------------------------------------------------------- messages
\* The bytes of the file k.txt.  Files 1 and 2 are the two items of the
\* documented example mailbox.
Content(k) ==
    CASE k = 1 -> <<"Hello", CRLF, CRLF, "Body1">>
      [] k = 2 -> <<"Hi", CRLF, CRLF, "Body2">>
      [] k = 3 -> <<"Subject: three", CRLF, CRLF, "L1", CRLF, "L2", CRLF, "L3", CRLF>>
      [] OTHER -> <<"NoSeparator", Str(k), CRLF>>

\* len(m)
ByteLen(m) == SumSeq([i \in 1..Len(m) |-> Len(m[i])])

\* m.splitlines(): the lines of m without their line breaks; a line break
\* at the very end opens no further line.
RECURSIVE SplitFrom(_, _, _)
SplitFrom(m, i, cur) ==
    IF i > Len(m) THEN (IF cur = <<>> THEN <<>> ELSE <<cur[1]>>)
    ELSE IF m[i] = CRLF
         THEN <<(IF cur = <<>> THEN "" ELSE cur[1])>> \o SplitFrom(m, i + 1, <<>>)
         ELSE SplitFrom(m, i + 1, <<(IF cur = <<>> THEN m[i] ELSE cur[1] \o m[i])>>)

splitlines(m) == SplitFrom(m, 1, <<>>)

\* -------------------------------------------------------------- commands
\* An argument token of a command line: its text, and what int() makes of
\* it (int() raises ValueError unless the text is an integer literal).
Num(v) == [txt |-> Str(v), isnum |-> TRUE, val |-> v]
Word(w) == [txt |-> w, isnum |-> FALSE, val |-> 0]

\* int(args[k - 1]) raises: IndexError (no such argument) or ValueError.
IntRaises(args, k) == Len(args) < k \/ ~args[k].isnum

\* int(args[k - 1])
IntArg(args, k) == args[k].val

\* The indices of the snapshot that are not marked, ascending
\* (for i, m in enumerate(self.messages): if i not in self.deleted).
Unmarked(messages, deleted) ==
    LET idx == [j \in 1..Len(messages) |-> j - 1]
        Keep(i) == i \notin deleted
    IN  SelectSeq(idx, Keep)

\* InRange without the lower bound.
InRangeBelow(index, messages) == index < Len(messages)

\* 0 <= index < len(self.messages)
InRange(index, messages) == 0 <= index /\ index < Len(messages)

\* Visible without the test of the marks.
VisibleAny(index, messages, deleted) == 0 <= index /\ index < Len(messages)

\* 0 <= index < len(self.messages) and index not in self.deleted
Visible(index, messages, deleted) ==
    0 <= index /\ index < Len(messages) /\ index \notin deleted

\* Outcome that loses the marks.
OutcomeForgets(self, lines) ==
    [raises |-> FALSE, deleted |-> {}, lines |-> lines,
     state |-> self.state, username |-> self.username, close |-> FALSE]

\* What a handler does to the session (its fields when the handler first
\* calls send_line, the lines it sends, its fields after the last send),
\* or that it raises before it sends anything.
Outcome(self, lines) ==
    [raises |-> FALSE, deleted |-> self.deleted, lines |-> lines,
     state |-> self.state, username |-> self.username, close |-> FALSE]

Raises(self) == [Outcome(self, <<>>) EXCEPT !.raises = TRUE]

\* UserAccepted without the comparison with USERNAME.
UserAcceptedAny(args) == args # <<>>

\* if args and args[0] == USERNAME
UserAccepted(args) == args # <<>> /\ args[1].txt = USERNAME

\* PassAccepted without the test of self.username.
PassAcceptedAnyUser(username, args) == args # <<>> /\ args[1].txt = PASSWORD

\* if args and self.username == USERNAME and args[0] == PASSWORD
PassAccepted(username, args) ==
    args # <<>> /\ username = USERNAME /\ args[1].txt = PASSWORD

handle_auth(self, cmd, args) ==
    CASE cmd = "USER" ->
           IF UserAccepted(args)
           THEN [Outcome(self, <<"+OK User accepted">>) EXCEPT !.username = args[1].txt]
           ELSE Outcome(self, <<"-ERR Invalid user">>)
      [] cmd = "PASS" ->
           IF PassAccepted(self.username, args)
           THEN [Outcome(self, <<"+OK Authenticated">>) EXCEPT !.state = "TRANSACTION"]
           ELSE Outcome(self, <<"-ERR Invalid password">>)
      [] cmd = "QUIT" ->
           [Outcome(self, <<"+OK Goodbye">>) EXCEPT !.close = TRUE]
      [] OTHER -> Outcome(self, <<"-ERR Command not allowed">>)

\* StatCount without the marks.
StatCountAll(messages, deleted) == Len(messages)

\* count = len(self.messages) - len(self.deleted)
StatCount(messages, deleted) == Len(messages) - Cardinality(deleted)

\* size = sum(len(m) for i, m in enumerate(self.messages) if i not in self.deleted)
StatSize(messages, deleted) ==
    LET u == Unmarked(messages, deleted)
    IN  SumSeq([j \in 1..Len(u) |-> ByteLen(messages[u[j] + 1])])

StatReply(messages, deleted) ==
    <<"+OK " \o Str(StatCount(messages, deleted)) \o " "
             \o Str(StatSize(messages, deleted))>>

\* The entry lines of LIST without an argument.
ListEntries(messages, deleted) ==
    LET u == Unmarked(messages, deleted)
    IN  [j \in 1..Len(u) |-> Str(u[j] + 1) \o " " \o Str(ByteLen(messages[u[j] + 1]))]

\* uid = f"UID{i + 1:04d}"
Uid(i) == "UID" \o Pad4(i + 1)

\* The entry lines of UIDL without an argument.
UidlEntries(messages, deleted) ==
    LET u == Unmarked(messages, deleted)
    IN  [j \in 1..Len(u) |-> Str(u[j] + 1) \o " " \o Uid(u[j])]

\* The header and body TOP splits a message into: the first empty line and
\* everything after it go to the body.
RECURSIVE HeaderOf(_)
HeaderOf(lines) ==
    IF lines = <<>> \/ Head(lines) = "" THEN <<>>
    ELSE <<Head(lines)>> \o HeaderOf(Tail(lines))

BodyOf(lines) == SubSeq(lines, Len(HeaderOf(lines)) + 1, Len(lines))

\* body[:n]
Prefix(body, n) ==
    IF n >= 0
    THEN SubSeq(body, 1, IF n < Len(body) THEN n ELSE Len(body))
    ELSE SubSeq(body, 1, Len(body) + n)

TopReply(m, n) ==
    <<"+OK Top of message follows">> \o HeaderOf(splitlines(m))
        \o Prefix(BodyOf(splitlines(m)), n) \o <<".">>

RetrReply(m) ==
    <<"+OK " \o Str(ByteLen(m)) \o " octets">> \o splitlines(m) \o <<".">>

NoSuch == <<"-ERR No such message">>

\* DeleMarks that forgets the earlier marks.
DeleOnly(deleted, index) == {index}

\* self.deleted.add(index)
DeleMarks(deleted, index) == deleted \cup {index}

\* RsetMarks that clears nothing.
RsetKeeps(deleted) == deleted

\* self.deleted.clear()
RsetMarks(deleted) == {}

handle_transaction(self, cmd, args) ==
    LET messages == self.messages
        deleted == self.deleted
    IN
    CASE cmd = "STAT" -> Outcome(self, StatReply(messages, deleted))
      [] cmd = "LIST" ->
           IF args = <<>>
           THEN Outcome(self, <<"+OK " \o Str(Len(messages)) \o " messages">>
                              \o ListEntries(messages, deleted) \o <<".">>)
           ELSE IF IntRaises(args, 1) THEN Raises(self)
           ELSE LET index == IntArg(args, 1) - 1
                IN  IF Visible(index, messages, deleted)
                    THEN Outcome(self, <<"+OK " \o Str(index + 1) \o " "
                                         \o Str(ByteLen(messages[index + 1]))>>)
                    ELSE Outcome(self, NoSuch)
      [] cmd = "RETR" ->
           IF IntRaises(args, 1) THEN Raises(self)
           ELSE LET index == IntArg(args, 1) - 1
                IN  IF Visible(index, messages, deleted)
                    THEN Outcome(self, RetrReply(messages[index + 1]))
                    ELSE Outcome(self, NoSuch)
      [] cmd = "DELE" ->
           IF IntRaises(args, 1) THEN Raises(self)
           ELSE LET index == IntArg(args, 1) - 1
                IN  IF InRange(index, messages)
                    THEN [Outcome(self, <<"+OK Message " \o Str(index + 1)
                                          \o " marked for deletion">>)
                            EXCEPT !.deleted = DeleMarks(deleted, index)]
                    ELSE Outcome(self, NoSuch)
      [] cmd = "NOOP" -> Outcome(self, <<"+OK">>)
      [] cmd = "RSET" ->
           [Outcome(self, <<"+OK Deletion marks cleared">>)
              EXCEPT !.deleted = RsetMarks(deleted)]
      [] cmd = "UIDL" ->
           IF args = <<>>
           THEN Outcome(self, <<"+OK unique-id listing follows">>
                              \o UidlEntries(messages, deleted) \o <<".">>)
           ELSE IF IntRaises(args, 1) THEN Raises(self)
           ELSE LET index == IntArg(args, 1) - 1
                IN  IF Visible(index, messages, deleted)
                    THEN Outcome(self, <<"+OK " \o Str(index + 1) \o " " \o Uid(index)>>)
                    ELSE Outcome(self, NoSuch)
      [] cmd = "TOP" ->
           IF IntRaises(args, 1) \/ IntRaises(args, 2) THEN Raises(self)
           ELSE LET index == IntArg(args, 1) - 1
                    n == IntArg(args, 2)
                IN  IF Visible(index, messages, deleted)
                    THEN Outcome(self, TopReply(messages[index + 1], n))
                    ELSE Outcome(self, NoSuch)
      [] cmd = "QUIT" ->
           [Outcome(self, <<"+OK Goodbye">>) EXCEPT !.close = TRUE]
      [] OTHER -> Outcome(self, <<"-ERR Command not supported">>)

\* HandleLine without the test of the state: always the TRANSACTION handler.
HandleLineTransaction(self, cmd, args) == handle_transaction(self, cmd, args)

\* The phase dispatch of handle(): a line is handled by the handler of the
\* session's state.
HandleLine(self, cmd, args) ==
    IF self.state = "AUTH" THEN handle_auth(self, cmd, args)
    ELSE handle_transaction(self, cmd, args)

\* ----------------------------------------------------------------- state
VARIABLES
    store,        \* the files of MAILBOX_DIR: the set of k with k.txt present
    listener,     \* start_server's accept loop and the session it constructs
    pc,           \* where each connection's session is
    state,        \* self.state
    username,     \* self.username
    messages,     \* self.messages: the snapshot
    deleted,      \* self.deleted: the marked snapshot indices (0-based)
    names,        \* what sorted(os.listdir()) returned to load_messages
    closed,       \* self.conn has been closed by the server
    pending,      \* complete lines of the last recv() still in buffer
    todo,         \* cleanup_deleted's iteration: the indices still to visit
    commits,      \* how often cleanup_deleted has been entered
    quitMarks,    \* <<self.deleted>> as it was when QUIT was handled
    commitMarks,  \* <<self.deleted>> as it was when cleanup_deleted was entered
    lastDele,     \* <<self.deleted before it>> while the last command handled
                  \* is a DELE that replied +OK
    ev,           \* the command line handled by the last step, and its reply
    wire          \* one byte stream fed to handle() in one read and in pieces

vars == <<store, listener, pc, state, username, messages, deleted, names,
          closed, pending, todo, commits, quitMarks, commitMarks, lastDele, ev,
          wire>>

serverVars == <<store, listener, pc, state, username, messages, deleted, names,
                closed, pending, todo, commits, quitMarks, commitMarks,
                lastDele, ev>>

sessVars == <<state, username, messages, deleted, names, closed, pending,
              todo, commits, quitMarks, commitMarks, lastDele>>

NoEvent == [kind |-> "none"]

\* No byte stream is followed.
NoWire == [kind |-> "off"]

Idle == [pc |-> "accept", sess |-> 0, todo |-> <<>>, msgs |-> <<>>]

\* The process runs until the main thread dies: the session threads are
\* daemon threads.
ProcessAlive == listener.pc # "dead"

\* Self with one set of marks for all the sessions.
SelfShared(s) == [state |-> state[s], username |-> username[s],
                  messages |-> messages[s],
                  deleted |-> UNION {deleted[t] : t \in Sessions}]

\* The session object as its handlers see it.
Self(s) == [state |-> state[s], username |-> username[s],
            messages |-> messages[s], deleted |-> deleted[s]]

\* ---------------------------------------------------------------- inputs
ArgNums == (0 - 1)..(MaxName + 1)

NoArgVerbs == {"QUIT", "NOOP", "RSET", "STAT", "XYZZ"}

IndexVerbs == {"LIST", "UIDL", "RETR", "DELE"}

\* The command lines a client sends: [verb, args].
Commands ==
    [verb : NoArgVerbs, args : {<<>>}]
    \cup [verb : {"USER"}, args : {<<>>, <<Word(USERNAME)>>, <<Word("bob")>>}]
    \cup [verb : {"PASS"}, args : {<<>>, <<Word(PASSWORD)>>, <<Word("bad")>>}]
    \cup [verb : IndexVerbs,
          args : {<<>>, <<Word("x")>>} \cup {<<Num(v)>> : v \in ArgNums}]
    \cup [verb : {"TOP"},
          args : {<<Num(v)>> : v \in ArgNums}
                 \cup {<<Word("x"), Num(0)>>, <<Num(1), Word("x")>>}
                 \cup {<<Num(v), Num(k)>> : v \in ArgNums, k \in 0..MaxTop}]

\* The command lines of the clients of the concurrent specification.
FewCommands ==
    {[verb |-> "USER", args |-> <<Word(USERNAME)>>],
     [verb |-> "PASS", args |-> <<Word(PASSWORD)>>],
     [verb |-> "STAT", args |-> <<>>],
     [verb |-> "LIST", args |-> <<>>],
     [verb |-> "UIDL", args |-> <<>>],
     [verb |-> "RETR", args |-> <<Num(1)>>],
     [verb |-> "TOP", args |-> <<Num(1), Num(1)>>],
     [verb |-> "RSET", args |-> <<>>],
     [verb |-> "QUIT", args |-> <<>>]}
    \cup [verb : {"DELE"}, args : {<<Num(v)>> : v \in 1..MaxName}]

\* ------------------------------------------------------------------ Init
Init ==
    /\ store \in SUBSET (1..MaxName)
    /\ listener = Idle
    /\ pc = [s \in Sessions |-> "none"]
    /\ state = [s \in Sessions |-> "AUTH"]
    /\ username = [s \in Sessions |-> ""]
    /\ messages = [s \in Sessions |-> <<>>]
    /\ deleted = [s \in Sessions |-> {}]
    /\ names = [s \in Sessions |-> <<>>]
    /\ closed = [s \in Sessions |-> FALSE]
    /\ pending = [s \in Sessions |-> 0]
    /\ todo = [s \in Sessions |-> <<>>]
    /\ commits = [s \in Sessions |-> 0]
    /\ quitMarks = [s \in Sessions |-> <<>>]
    /\ commitMarks = [s \in Sessions |-> <<>>]
    /\ lastDele = [s \in Sessions |-> <<>>]
    /\ ev = NoEvent
    /\ wire = NoWire

\* -------------------------------------------------------------- listener
\* conn, addr = server.accept(); Pop3Session(conn, addr) up to the
\* os.listdir() of load_messages.
Accept(s) ==
    /\ listener.pc = "accept"
    /\ pc[s] = "none"
    /\ listener' = [pc |-> "load", sess |-> s, todo |-> SortedNames(store),
                    msgs |-> <<>>]
    /\ names' = [names EXCEPT ![s] = SortedNames(store)]
    /\ pc' = [pc EXCEPT ![s] = "init"]
    /\ state' = [state EXCEPT ![s] = "AUTH"]
    /\ username' = [username EXCEPT ![s] = ""]
    /\ ev' = NoEvent
    /\ UNCHANGED wire
    /\ UNCHANGED <<store, messages, deleted, closed, pending, todo, commits,
                   quitMarks, commitMarks, lastDele>>

\* One round of load_messages' loop: open and read the next listed file.
\* open() raises FileNotFoundError when the file is gone; nothing catches
\* it in start_server, so the main thread ends.
LoadOpen ==
    /\ listener.pc = "load"
    /\ listener.todo # <<>>
    /\ listener' =
         IF Head(listener.todo) \in store
         THEN [listener EXCEPT !.todo = Tail(@),
                               !.msgs = Append(@, Content(Head(listener.todo)))]
         ELSE [listener EXCEPT !.pc = "dead"]
    /\ ev' = NoEvent
    /\ UNCHANGED wire
    /\ UNCHANGED <<store, pc>>
    /\ UNCHANGED sessVars

\* load_messages returns; __init__ finishes; the session's thread starts.
StartSession ==
    /\ listener.pc = "load"
    /\ listener.todo = <<>>
    /\ messages' = [messages EXCEPT ![listener.sess] = listener.msgs]
    /\ deleted' = [deleted EXCEPT ![listener.sess] = {}]
    /\ pc' = [pc EXCEPT ![listener.sess] = "greet"]
    /\ listener' = Idle
    /\ ev' = NoEvent
    /\ UNCHANGED wire
    /\ UNCHANGED <<store, state, username, names, closed, pending, todo,
                   commits, quitMarks, commitMarks, lastDele>>

\* --------------------------------------------------------------- session
\* self.send_line("+OK POP3 server ready"), before handle()'s try: a
\* transport fault here leaves handle() by the exception.
Greet(s, fault) ==
    /\ ProcessAlive
    /\ pc[s] = "greet"
    /\ pc' = [pc EXCEPT ![s] = IF fault THEN "crashed" ELSE "recv"]
    /\ ev' = NoEvent
    /\ UNCHANGED wire
    /\ UNCHANGED <<store, listener>>
    /\ UNCHANGED sessVars

\* data = self.conn.recv(1024): complete command lines, or no data (EOF), or
\* an exception (a transport error; always, on a socket the server closed).
\* Without data the loop is left.
Recv(s, most) ==
    /\ ProcessAlive
    /\ pc[s] = "recv"
    /\ \/ /\ ~closed[s]
          /\ \E k \in 1..most :
                /\ pending' = [pending EXCEPT ![s] = k]
                /\ pc' = [pc EXCEPT ![s] = "dispatch"]
       \/ /\ pc' = [pc EXCEPT ![s] = "close"]
          /\ UNCHANGED pending
    /\ ev' = NoEvent
    /\ UNCHANGED wire
    /\ UNCHANGED <<store, listener, state, username, messages, deleted, names,
                   closed, todo, commits, quitMarks, commitMarks, lastDele>>

\* The failure lines the handlers send; every other first line of a reply
\* starts with "+OK".
ErrLines == {"-ERR Invalid user", "-ERR Invalid password",
             "-ERR Command not allowed", "-ERR No such message",
             "-ERR Command not supported"}

IsErr(lines) == lines # <<>> /\ lines[1] \in ErrLines

IsOk(lines) == lines # <<>> /\ lines[1] \notin ErrLines

\* One round of the inner loop of handle(): the next line of the buffer is
\* split off and handled.  send_line raises when the server has closed the
\* connection or the transport fails (fault); the exception, like one of
\* int(), ends the loop.
Dispatch(s, c, fault) ==
    /\ ProcessAlive
    /\ pc[s] = "dispatch"
    /\ fault => ~closed[s]
    /\ \E r \in {HandleLine(Self(s), c.verb, c.args)} :
       LET broke == r.raises \/ closed[s] \/ fault
           left == pending[s] - 1
       IN
       /\ deleted' = [deleted EXCEPT ![s] = r.deleted]
       /\ state' = [state EXCEPT ![s] = IF broke THEN @ ELSE r.state]
       /\ username' = [username EXCEPT ![s] = IF broke THEN @ ELSE r.username]
       /\ closed' = [closed EXCEPT ![s] = IF broke THEN @ ELSE r.close]
       /\ pending' = [pending EXCEPT ![s] = IF broke THEN 0 ELSE left]
       /\ pc' = [pc EXCEPT ![s] = IF broke THEN "close"
                                  ELSE IF left = 0 THEN "recv" ELSE "dispatch"]
       /\ quitMarks' = [quitMarks EXCEPT ![s] =
                           IF ~broke /\ r.close THEN <<deleted[s]>> ELSE @]
       /\ lastDele' = [lastDele EXCEPT ![s] =
                           IF ~broke /\ c.verb = "DELE" /\ state[s] = "TRANSACTION"
                              /\ IsOk(r.lines)
                           THEN <<deleted[s]>> ELSE <<>>]
       /\ ev' = [kind |-> "cmd", s |-> s, verb |-> c.verb, args |-> c.args,
                 reply |-> IF broke THEN <<>> ELSE r.lines,
                 raised |-> broke, fault |-> fault, wasClosed |-> closed[s],
                 before |-> [state |-> state[s], username |-> username[s],
                             deleted |-> deleted[s]],
                 dele |-> lastDele[s]]
       /\ UNCHANGED <<store, listener, messages, names, todo, commits,
                      commitMarks, wire>>

\* path = os.path.join(MAILBOX_DIR, f"{i + 1}.txt")
FileOf(i) == i + 1

\* Where cleanup_deleted is once `rest` is left to visit.
AfterVisit(rest) == IF rest = <<>> THEN "done" ELSE "cleanup"

\* After the loop: self.conn.close(), and cleanup_deleted is entered: the
\* marked indices are sorted, highest first.
Finish(s) ==
    /\ ProcessAlive
    /\ pc[s] = "close"
    /\ closed' = [closed EXCEPT ![s] = TRUE]
    /\ todo' = [todo EXCEPT ![s] = SortedDesc(deleted[s])]
    /\ commits' = [commits EXCEPT ![s] = @ + 1]
    /\ commitMarks' = [commitMarks EXCEPT ![s] = <<deleted[s]>>]
    /\ pc' = [pc EXCEPT ![s] = AfterVisit(SortedDesc(deleted[s]))]
    /\ ev' = NoEvent
    /\ UNCHANGED wire
    /\ UNCHANGED <<store, listener, state, username, messages, deleted, names,
                   pending, quitMarks, lastDele>>

\* if os.path.exists(path)
CleanupExists(s) ==
    /\ ProcessAlive
    /\ pc[s] = "cleanup"
    /\ IF FileOf(Head(todo[s])) \in store
       THEN /\ pc' = [pc EXCEPT ![s] = "remove"]
            /\ UNCHANGED todo
       ELSE /\ todo' = [todo EXCEPT ![s] = Tail(@)]
            /\ pc' = [pc EXCEPT ![s] = AfterVisit(Tail(todo[s]))]
    /\ ev' = NoEvent
    /\ UNCHANGED wire
    /\ UNCHANGED <<store, listener, state, username, messages, deleted, names,
                   closed, pending, commits, quitMarks, commitMarks, lastDele>>

\* os.remove(path): raises FileNotFoundError when the file is gone, which
\* nothing catches: the thread ends.
CleanupRemove(s) ==
    /\ ProcessAlive
    /\ pc[s] = "remove"
    /\ IF FileOf(Head(todo[s])) \in store
       THEN /\ store' = store \ {FileOf(Head(todo[s]))}
            /\ todo' = [todo EXCEPT ![s] = Tail(@)]
            /\ pc' = [pc EXCEPT ![s] = AfterVisit(Tail(todo[s]))]
       ELSE /\ pc' = [pc EXCEPT ![s] = "crashed"]
            /\ UNCHANGED <<store, todo>>
    /\ ev' = NoEvent
    /\ UNCHANGED wire
    /\ UNCHANGED <<listener, state, username, messages, deleted, names,
                   closed, pending, commits, quitMarks, commitMarks, lastDele>>

\* --------------------------------------------------------- specifications
\* One client connects and sends any of Commands.
Next ==
    \/ Accept(1)
    \/ LoadOpen
    \/ StartSession
    \/ \E fault \in BOOLEAN : Greet(1, fault)
    \/ Recv(1, MaxBatch)
    \/ \E c \in Commands, fault \in BOOLEAN : Dispatch(1, c, fault)
    \/ Finish(1)
    \/ CleanupExists(1)
    \/ CleanupRemove(1)

Spec == Init /\ [][Next]_vars

\* Every client of Sessions connects and sends some of FewCommands, one line
\* to a read, over a transport that fails only before the greeting; the
\* sessions run concurrently.
NextConc ==
    \/ \E s \in Sessions : Accept(s)
    \/ LoadOpen
    \/ StartSession
    \/ \E s \in Sessions, fault \in BOOLEAN : Greet(s, fault)
    \/ \E s \in Sessions : Recv(s, 1)
    \/ \E s \in Sessions, c \in FewCommands : Dispatch(s, c, FALSE)
    \/ \E s \in Sessions : Finish(s)
    \/ \E s \in Sessions : CleanupExists(s)
    \/ \E s \in Sessions : CleanupRemove(s)

SpecConc == Init /\ [][NextConc]_vars

\* =============================================================== the wire
\* The bytes a client sends.  A byte is a one-character string, or one of
\* the two bytes of the UTF-8 encoding of U+00E9; decoded text is a sequence
\* of characters.
CR == "\r"
LF == "\n"
ByteC3 == "<C3>"
ByteA9 == "<A9>"
CharE9 == "<U+00E9>"

\* data.decode(errors='ignore'): a byte that does not belong to a complete
\* UTF-8 sequence inside `data` is dropped.
RECURSIVE decode(_)
decode(data) ==
    IF data = <<>> THEN <<>>
    ELSE IF Head(data) = ByteC3
         THEN IF Len(data) >= 2 /\ data[2] = ByteA9
              THEN <<CharE9>> \o decode(Tail(Tail(data)))
              ELSE decode(Tail(data))
    ELSE IF Head(data) = ByteA9 THEN decode(Tail(data))
    ELSE <<Head(data)>> \o decode(Tail(data))

\* '\r\n' in buffer
HasCRLF(buffer) ==
    \E i \in 1..(Len(buffer) - 1) : buffer[i] = CR /\ buffer[i + 1] = LF

\* Where the first '\r\n' of buffer starts.
FirstCRLF(buffer) ==
    CHOOSE i \in 1..(Len(buffer) - 1) :
        /\ buffer[i] = CR /\ buffer[i + 1] = LF
        /\ \A j \in 1..(i - 1) : ~(buffer[j] = CR /\ buffer[j + 1] = LF)

Whitespace == {" ", "\t", CR, LF}

RECURSIVE lstrip(_)
lstrip(line) ==
    IF line # <<>> /\ Head(line) \in Whitespace THEN lstrip(Tail(line))
    ELSE line

RECURSIVE rstrip(_)
rstrip(line) ==
    IF line # <<>> /\ line[Len(line)] \in Whitespace
    THEN rstrip(SubSeq(line, 1, Len(line) - 1))
    ELSE line

\* line.strip()
strip(line) == rstrip(lstrip(line))

\* line.split(): the maximal runs of characters that are not whitespace.
RECURSIVE SplitWords(_, _)
SplitWords(line, word) ==
    IF line = <<>> THEN (IF word = <<>> THEN <<>> ELSE <<word>>)
    ELSE IF Head(line) \in Whitespace
         THEN (IF word = <<>> THEN <<>> ELSE <<word>>)
                  \o SplitWords(Tail(line), <<>>)
         ELSE SplitWords(Tail(line), Append(word, Head(line)))

split(line) == SplitWords(line, <<>>)

\* The string of a sequence of characters.
RECURSIVE Join(_)
Join(chars) == IF chars = <<>> THEN "" ELSE Head(chars) \o Join(Tail(chars))

LowerCase == <<"a", "b", "c", "d", "e", "f", "g", "h", "i", "j", "k", "l", "m",
               "n", "o", "p", "q", "r", "s", "t", "u", "v", "w", "x", "y", "z">>
UpperCase == <<"A", "B", "C", "D", "E", "F", "G", "H", "I", "J", "K", "L", "M",
               "N", "O", "P", "Q", "R", "S", "T", "U", "V", "W", "X", "Y", "Z">>

\* parts[0].upper()
upper(chars) ==
    [i \in 1..Len(chars) |->
        IF \E j \in 1..26 : LowerCase[j] = chars[i]
        THEN UpperCase[CHOOSE j \in 1..26 : LowerCase[j] = chars[i]]
        ELSE chars[i]]

IsDigits(chars) ==
    chars # <<>> /\ \A i \in 1..Len(chars) : \E d \in 1..10 : Digit[d] = chars[i]

RECURSIVE DigitsVal(_)
DigitsVal(chars) ==
    IF chars = <<>> THEN 0
    ELSE 10 * DigitsVal(SubSeq(chars, 1, Len(chars) - 1))
         + (CHOOSE d \in 0..9 : Digit[d + 1] = chars[Len(chars)])

Signed(chars) == chars # <<>> /\ Head(chars) \in {"+", "-"}

\* An element of parts[1:] as the handlers use it: its text, and what
\* int() makes of it.
Arg(chars) ==
    LET digits == IF Signed(chars) THEN Tail(chars) ELSE chars
    IN  IF IsDigits(digits)
        THEN [txt |-> Join(chars), isnum |-> TRUE,
              val |-> IF Head(chars) = "-" THEN 0 - DigitsVal(digits)
                      ELSE DigitsVal(digits)]
        ELSE [txt |-> Join(chars), isnum |-> FALSE, val |-> 0]

\* ---------------------------------------------------------- byte streams
EOL == <<CR, LF>>

LoginLines ==
    {<<"U", "S", "E", "R", " ", "u", "s", "e", "r">>,
     <<"U", "S", "E", "R", " ", "u", "s", ByteC3, ByteA9, "e", "r">>}

PassLine == <<"P", "A", "S", "S", " ", "p", "a", "s", "s">>

LaterLines ==
    {<<"Q", "U", "I", "T">>,
     <<"D", "E", "L", "E", " ", "1">>,
     <<"s", "t", "a", "t">>,
     <<>>}

\* The most lines a client sends after USER and PASS.
MaxLater == 2

RECURSIVE Crlfs(_)
Crlfs(lines) ==
    IF lines = <<>> THEN <<>> ELSE Head(lines) \o EOL \o Crlfs(Tail(lines))

\* The byte streams clients send: USER, PASS, then some lines, each line
\* ended by CRLF; then the client shuts its side down.
Streams ==
    {Crlfs(<<first, PassLine>> \o later) :
        first \in LoginLines,
        later \in UNION {[1..n -> LaterLines] : n \in 0..MaxLater}}

\* The same stream is handled twice, by two sessions alone on a mailbox of
\* their own: "whole" gets it in one recv(), "split" in any pieces.
Runs == {"whole", "split"}

\* load_messages over a directory nothing else touches.
Loaded(dir) ==
    [j \in 1..Len(SortedNames(dir)) |-> Content(SortedNames(dir)[j])]

\* The two sessions after Pop3Session(conn, addr), with `stream` on its way.
StartWire(stream, dir) ==
    [kind |-> "on",
     stream |-> stream,
     unread |-> [r \in Runs |-> stream],
     buffer |-> [r \in Runs |-> <<>>],
     self |-> [r \in Runs |-> [state |-> "AUTH", username |-> "",
                               messages |-> Loaded(dir), deleted |-> {}]],
     closed |-> [r \in Runs |-> FALSE],
     pc |-> [r \in Runs |-> "greet"],
     log |-> [r \in Runs |-> <<>>],
     files |-> [r \in Runs |-> dir]]

InitFrame ==
    /\ store = 1..MaxName
    /\ listener = Idle
    /\ pc = [s \in Sessions |-> "none"]
    /\ state = [s \in Sessions |-> "AUTH"]
    /\ username = [s \in Sessions |-> ""]
    /\ messages = [s \in Sessions |-> <<>>]
    /\ deleted = [s \in Sessions |-> {}]
    /\ names = [s \in Sessions |-> <<>>]
    /\ closed = [s \in Sessions |-> FALSE]
    /\ pending = [s \in Sessions |-> 0]
    /\ todo = [s \in Sessions |-> <<>>]
    /\ commits = [s \in Sessions |-> 0]
    /\ quitMarks = [s \in Sessions |-> <<>>]
    /\ commitMarks = [s \in Sessions |-> <<>>]
    /\ lastDele = [s \in Sessions |-> <<>>]
    /\ ev = NoEvent
    /\ \E stream \in Streams : wire = StartWire(stream, store)

\* The two sessions share nothing; "whole" is run to its end first.
Turn(r) == wire.kind = "on" /\ (r = "split" => wire.pc["whole"] = "done")

\* self.send_line("+OK POP3 server ready")
FrameGreet(r) ==
    /\ wire.kind = "on"
    /\ Turn(r)
    /\ wire.pc[r] = "greet"
    /\ wire' = [wire EXCEPT !.pc[r] = "recv",
                            !.log[r] = Append(@, [sent |-> <<"+OK POP3 server ready">>])]
    /\ UNCHANGED serverVars

\* How many bytes one recv(1024) may return: none on a socket the server
\* has closed (it raises) or at the end of the stream; else all that is
\* unread, for "whole", and any number of bytes of it, for "split".  No
\* stream here has 1024 bytes.
ReadSizes(r) ==
    IF wire.closed[r] \/ wire.unread[r] = <<>> THEN {0}
    ELSE IF r = "whole" THEN {Len(wire.unread[r])}
    ELSE 1..Len(wire.unread[r])

LongestStream ==
    CHOOSE n \in {Len(str) : str \in Streams} : \A str \in Streams : Len(str) <= n

\* data = self.conn.recv(1024); buffer += data.decode(errors='ignore').
\* recv raises on a socket the server has closed and returns no data once
\* the stream is read to its end: either way the loop is left.  Otherwise
\* it returns the next n bytes.
FrameRecv(r, n) ==
    /\ wire.kind = "on"
    /\ Turn(r)
    /\ wire.pc[r] = "recv"
    /\ n \in ReadSizes(r)
    /\ IF n = 0
       THEN wire' = [wire EXCEPT !.pc[r] = "close"]
       ELSE wire' = [wire EXCEPT
               !.buffer[r] = @ \o decode(SubSeq(wire.unread[r], 1, n)),
               !.unread[r] = SubSeq(@, n + 1, Len(@)),
               !.pc[r] = "lines"]
    /\ UNCHANGED serverVars

\* One round of `while '\r\n' in buffer`: without a delimiter the session
\* reads again; else the first line is split off and stripped, an empty one
\* is skipped, any other is handled by the handler of the state.  send_line
\* raises on a connection the server has closed; the exception, like one
\* of int(), ends the loop.
FrameLine(r) ==
    /\ wire.kind = "on"
    /\ Turn(r)
    /\ wire.pc[r] = "lines"
    /\ IF ~HasCRLF(wire.buffer[r])
       THEN wire' = [wire EXCEPT !.pc[r] = "recv"]
       ELSE LET at == FirstCRLF(wire.buffer[r])
                line == strip(SubSeq(wire.buffer[r], 1, at - 1))
                rest == SubSeq(wire.buffer[r], at + 2, Len(wire.buffer[r]))
                parts == split(line)
                cmd == Join(upper(parts[1]))
                args == [k \in 1..(Len(parts) - 1) |-> Arg(parts[k + 1])]
            IN  IF line = <<>>
                THEN wire' = [wire EXCEPT !.buffer[r] = rest]
                ELSE \E h \in {HandleLine(wire.self[r], cmd, args)} :
                     LET broke == h.raises \/ wire.closed[r]
                     IN  wire' = [wire EXCEPT
                            !.buffer[r] = rest,
                            !.self[r] =
                               [state |-> IF broke THEN @.state ELSE h.state,
                                username |-> IF broke THEN @.username
                                             ELSE h.username,
                                messages |-> @.messages,
                                deleted |-> h.deleted],
                            !.closed[r] = IF broke THEN @ ELSE h.close,
                            !.pc[r] = IF broke THEN "close" ELSE "lines",
                            !.log[r] = Append(@,
                               [cmd |-> cmd,
                                args |-> [k \in 1..Len(args) |-> args[k].txt],
                                sent |-> IF broke THEN <<>> ELSE h.lines])]
    /\ UNCHANGED serverVars

\* After the loop: self.conn.close(); self.cleanup_deleted(), with nobody
\* else at the directory.
FrameFinish(r) ==
    /\ wire.kind = "on"
    /\ Turn(r)
    /\ wire.pc[r] = "close"
    /\ wire' = [wire EXCEPT
          !.closed[r] = TRUE,
          !.files[r] = @ \ {FileOf(i) : i \in wire.self[r].deleted},
          !.pc[r] = "done"]
    /\ UNCHANGED serverVars

NextFrame ==
    \/ \E r \in Runs : FrameGreet(r)
    \/ \E r \in Runs, n \in 0..LongestStream : FrameRecv(r, n)
    \/ \E r \in Runs : FrameLine(r)
    \/ \E r \in Runs : FrameFinish(r)

SpecFrame == InitFrame /\ [][NextFrame]_vars

\* ================================================================ claims
\* The last step handled the command line `verb` for a session whose state
\* was `st`, on a connection the server had not closed and over a transport
\* that did not fail.
Handled(verb, st) ==
    /\ ev.kind = "cmd"
    /\ ev.verb = verb
    /\ ev.before.state = st
    /\ ~ev.wasClosed
    /\ ~ev.fault

\* The session's loop goes on: it waits for, or handles, further lines.
Open(s) == pc[s] \in {"recv", "dispatch"}

\* The session's thread has ended.
Ended(s) == pc[s] \in {"done", "crashed"}

\* The files enumerated into the snapshot of s.
Enumerated(s) == {names[s][j] : j \in 1..Len(names[s])}

\* The files behind the snapshot indices of the set M.
ItemsOf(s, M) == {names[s][i + 1] : i \in M}

\* The snapshot indices of s that are not marked.
UnmarkedSet(s) == {i \in 0..(Len(messages[s]) - 1) : i \notin deleted[s]}

RECURSIVE SizeSum(_, _)
SizeSum(s, S) ==
    IF S = {} THEN 0
    ELSE LET i == CHOOSE x \in S : TRUE
         IN  ByteLen(messages[s][i + 1]) + SizeSum(s, S \ {i})

\* ---------------------------------------------------------------------
\* C1: after the commit of a session, the store holds exactly the files
\* enumerated into its snapshot minus the files of the indices that were
\* marked when the commit began: no marked item survives, no unmarked item
\* is removed.
C1_StoreAfterCommit ==
    pc[1] = "done" =>
        store = Enumerated(1) \ ItemsOf(1, commitMarks[1][1])

\* ---------------------------------------------------------------------
\* C2: a session that has ended, by whichever path, has run the commit
\* exactly once, and no file of an index marked when the commit began is
\* left in the store.
C2_CommitOnceOnEveryPath ==
    \A s \in Sessions :
        Ended(s) =>
            /\ commits[s] = 1
            /\ commitMarks[s] # <<>>
            /\ ItemsOf(s, commitMarks[s][1]) \cap store = {}

\* ---------------------------------------------------------------------
\* The numeric argument of the command line is missing or no integer.
BadNumber(verb, args) ==
    \/ verb \in {"LIST", "UIDL"} /\ args # <<>> /\ ~args[1].isnum
    \/ verb \in {"RETR", "DELE"} /\ (args = <<>> \/ ~args[1].isnum)
    \/ verb = "TOP" /\ (Len(args) < 2 \/ ~args[1].isnum \/ ~args[2].isnum)

\* C3: a Transaction command whose numeric argument is missing or does not
\* parse gets a failure reply, and the session stays open in Transaction
\* with its marks unchanged: no commit is triggered.
C3_BadNumberKeepsSession ==
    (/\ ev.kind = "cmd"
     /\ Handled(ev.verb, "TRANSACTION")
     /\ BadNumber(ev.verb, ev.args))
    => /\ ev.reply # <<>>
       /\ IsErr(ev.reply)
       /\ Open(ev.s)
       /\ state[ev.s] = "TRANSACTION"
       /\ deleted[ev.s] = ev.before.deleted
       /\ commits[ev.s] = 0

\* ---------------------------------------------------------------------
\* The credential table maps identity u to exactly the secret p.
CredentialOk(u, p) == u = USERNAME /\ p = PASSWORD

C4_PassStep ==
    \A s \in Sessions :
        /\ (state[s] = "AUTH" /\ state'[s] = "TRANSACTION")
           => /\ ev'.kind = "cmd" /\ ev'.s = s /\ ev'.verb = "PASS"
              /\ username[s] # ""
              /\ ev'.args # <<>>
              /\ CredentialOk(username[s], ev'.args[1].txt)
        /\ (/\ ev'.kind = "cmd" /\ ev'.s = s /\ ev'.verb = "PASS"
            /\ state[s] = "AUTH" /\ ~ev'.wasClosed /\ ~ev'.fault)
           => /\ username'[s] = username[s]
              /\ IF /\ username[s] # ""
                    /\ ev'.args # <<>>
                    /\ CredentialOk(username[s], ev'.args[1].txt)
                 THEN ev'.reply = <<"+OK Authenticated">>
                      /\ state'[s] = "TRANSACTION"
                 ELSE IsErr(ev'.reply) /\ state'[s] = "AUTH"

\* C4: the phase leaves Auth for Transaction only in a step that handles
\* PASS, and PASS succeeds iff a pending username exists and the credential
\* table maps it to the given secret; otherwise PASS replies failure, the
\* phase stays Auth, and the pending username is kept either way.
C4_PassOnlyWithCredentials == [][C4_PassStep]_vars

C4_Witness ==
    /\ Handled("PASS", "AUTH")
    /\ ev.before.username = USERNAME
    /\ state[ev.s] = "TRANSACTION"

\* ---------------------------------------------------------------------
\* C5 as stated: in Auth, USER with a name replies success and makes the
\* name the pending username, known identity or not; USER without a name
\* replies failure; the phase stays Auth.
C5_UserAlwaysAccepted ==
    Handled("USER", "AUTH") =>
        /\ state[ev.s] = "AUTH"
        /\ IF ev.args # <<>>
           THEN IsOk(ev.reply) /\ username[ev.s] = ev.args[1].txt
           ELSE IsErr(ev.reply)

\* C5 (amended): in Auth, USER replies success and makes the name the
\* pending username exactly when the name is the known identity; with any
\* other name, or none, it replies failure and keeps the pending username;
\* the phase stays Auth.
C5_UserAcceptedIfKnown ==
    Handled("USER", "AUTH") =>
        /\ state[ev.s] = "AUTH"
        /\ IF ev.args # <<>> /\ ev.args[1].txt = USERNAME
           THEN ev.reply = <<"+OK User accepted">>
                /\ username[ev.s] = ev.args[1].txt
           ELSE IsErr(ev.reply) /\ username[ev.s] = ev.before.username

C5_Witness ==
    /\ Handled("USER", "AUTH")
    /\ ev.args = <<Word("bob")>>
    /\ ev.before.username = USERNAME
    /\ username[ev.s] = USERNAME
    /\ IsErr(ev.reply)

\* ---------------------------------------------------------------------
\* C6: STAT in Transaction replies the snapshot size minus the number of
\* marks, which is the number of unmarked entries, and the sum of the byte
\* lengths of exactly the unmarked entries.
C6_StatCountsUnmarked ==
    Handled("STAT", "TRANSACTION") =>
        LET s == ev.s
            count == Len(messages[s]) - Cardinality(deleted[s])
        IN  /\ count = Cardinality(UnmarkedSet(s))
            /\ ev.reply = <<"+OK " \o Str(count) \o " "
                                   \o Str(SizeSum(s, UnmarkedSet(s)))>>

C6_Witness ==
    /\ Handled("STAT", "TRANSACTION")
    /\ deleted[ev.s] # {}
    /\ UnmarkedSet(ev.s) # {}

\* ---------------------------------------------------------------------
\* What STAT, LIST and UIDL report of the snapshot of s under the marks D.
Observable(s, D) ==
    <<StatReply(messages[s], D), ListEntries(messages[s], D),
      UidlEntries(messages[s], D)>>

\* C7 as stated: RSET right after a successful DELE leaves what STAT, LIST
\* and UIDL report as it was before that DELE, whatever was marked then.
C7_DeleRsetRestores ==
    (Handled("RSET", "TRANSACTION") /\ ev.dele # <<>>)
    => Observable(ev.s, deleted[ev.s]) = Observable(ev.s, ev.dele[1])

\* C7 (amended): RSET right after a successful DELE that was issued with no
\* message marked leaves what STAT, LIST and UIDL report as it was before
\* that DELE.
C7_DeleRsetRestoresUnmarked ==
    (Handled("RSET", "TRANSACTION") /\ ev.dele = <<{}>>)
    => Observable(ev.s, deleted[ev.s]) = Observable(ev.s, {})

C7_Witness ==
    /\ Handled("RSET", "TRANSACTION")
    /\ ev.dele = <<{}>>
    /\ ev.before.deleted # {}
    /\ deleted[ev.s] = {}

\* ---------------------------------------------------------------------
\* The elements of a set of integers, ascending.
RECURSIVE Ascending(_)
Ascending(S) ==
    IF S = {} THEN <<>>
    ELSE LET lo == CHOOSE i \in S : \A j \in S : i <= j
         IN  <<lo>> \o Ascending(S \ {lo})

\* The line LIST, or UIDL, gives snapshot index i of s (named 1-based).
EntryLine(verb, s, i) ==
    IF verb = "LIST"
    THEN Str(i + 1) \o " " \o Str(ByteLen(messages[s][i + 1]))
    ELSE Str(i + 1) \o " " \o Uid(i)

\* C8: in Transaction, LIST and UIDL without an argument send one entry
\* line for each unmarked snapshot index, ascending, and none for a marked
\* index; LIST n and UIDL n reply failure when n is marked or out of range
\* and name n otherwise.
C8_ListingsSkipMarked ==
    \A verb \in {"LIST", "UIDL"} :
        Handled(verb, "TRANSACTION") =>
            LET s == ev.s
                u == Ascending(UnmarkedSet(s))
                entries == SubSeq(ev.reply, 2, Len(ev.reply) - 1)
            IN  /\ ev.args = <<>> =>
                     /\ IsOk(ev.reply)
                     /\ ev.reply[Len(ev.reply)] = "."
                     /\ entries = [j \in 1..Len(u) |-> EntryLine(verb, s, u[j])]
                     /\ \A i \in deleted[s] :
                            \A j \in 1..Len(entries) :
                                entries[j] # EntryLine(verb, s, i)
                /\ (ev.args # <<>> /\ ev.args[1].isnum) =>
                     IF ev.args[1].val - 1 \in UnmarkedSet(s)
                     THEN ev.reply = <<"+OK " \o EntryLine(verb, s, ev.args[1].val - 1)>>
                     ELSE ev.reply = NoSuch

C8_Witness ==
    /\ Handled("LIST", "TRANSACTION")
    /\ ev.args = <<>>
    /\ deleted[ev.s] # {}
    /\ Len(ev.reply) > 2

\* ---------------------------------------------------------------------
\* C9: once QUIT has been handled the connection is closed for good: no
\* later command line of the connection is dispatched, and the marks the
\* commit starts from are those of the moment QUIT was handled.
C9_ClosedIsTerminal ==
    /\ ev.kind = "cmd" => ~ev.wasClosed
    /\ \A s \in Sessions :
           (quitMarks[s] # <<>> /\ commitMarks[s] # <<>>)
           => commitMarks[s] = quitMarks[s]

\* ---------------------------------------------------------------------
\* C10: whatever fails, the process goes on: the listener keeps accepting
\* and the other sessions keep running.
C10_ProcessNeverAborts == ProcessAlive

\* ---------------------------------------------------------------------
\* The messages of the files enumerated for s, in that order.
SnapshotOf(s) == [j \in 1..Len(names[s]) |-> Content(names[s][j])]

\* C11: in Transaction, RETR n, LIST n, UIDL n and TOP n k with n out of
\* range or marked reply -ERR, change neither the marks nor the snapshot,
\* and leave the session open in Transaction.
C11_NoSuchMessage ==
    \A verb \in {"RETR", "LIST", "UIDL", "TOP"} :
        (/\ Handled(verb, "TRANSACTION")
         /\ ~BadNumber(verb, ev.args)
         /\ ev.args # <<>>
         /\ ev.args[1].val - 1 \notin UnmarkedSet(ev.s))
        => /\ ev.reply = <<"-ERR No such message">>
           /\ deleted[ev.s] = ev.before.deleted
           /\ messages[ev.s] = SnapshotOf(ev.s)
           /\ state[ev.s] = "TRANSACTION"
           /\ Open(ev.s)

C11_Witness ==
    /\ Handled("RETR", "TRANSACTION")
    /\ ev.args # <<>> /\ ev.args[1].isnum
    /\ ev.args[1].val - 1 \in deleted[ev.s]
    /\ IsErr(ev.reply)

\* ---------------------------------------------------------------------
\* C12: DELE n with n in range replies success, also when n is marked
\* already, and the marks become the earlier marks plus n; DELE n out of
\* range replies failure and keeps the marks; the store is as it was at
\* the start of the session for as long as the session has not ended.
C12_DeleMarksOnly ==
    /\ (Handled("DELE", "TRANSACTION") /\ ~BadNumber("DELE", ev.args))
       => LET s == ev.s
              i == ev.args[1].val - 1
          IN  IF 1 <= ev.args[1].val /\ ev.args[1].val <= Len(messages[s])
              THEN /\ IsOk(ev.reply)
                   /\ deleted[s] = ev.before.deleted \cup {i}
                   /\ store = Enumerated(s)
              ELSE /\ IsErr(ev.reply)
                   /\ deleted[s] = ev.before.deleted
                   /\ store = Enumerated(s)
    /\ pc[1] \in {"init", "greet", "recv", "dispatch", "close"}
       => store = Enumerated(1)

C12_Witness ==
    /\ Handled("DELE", "TRANSACTION")
    /\ ev.args # <<>> /\ ev.args[1].isnum
    /\ ev.args[1].val - 1 \in ev.before.deleted
    /\ Cardinality(deleted[ev.s]) = 2
    /\ IsOk(ev.reply)

\* ---------------------------------------------------------------------
\* C13: every mark is a valid 0-based index of the snapshot, whatever
\* numbers DELE is given.
C13_MarksAreIndices ==
    \A s \in Sessions :
        \A i \in deleted[s] : 0 <= i /\ i < Len(messages[s])

C13_Witness ==
    /\ Handled("DELE", "TRANSACTION")
    /\ ev.args # <<>> /\ ev.args[1].isnum /\ ev.args[1].val < 1
    /\ ev.before.deleted # {}
    /\ IsErr(ev.reply)

\* ---------------------------------------------------------------------
\* The indices cleanup_deleted of s has still to visit.
ToVisit(s) == {todo[s][j] : j \in 1..Len(todo[s])}

\* C14: the commit visits the marked indices in strictly descending order,
\* passes over an index whose file is absent without a fault, and leaves
\* no file it addresses behind, so that a second commit of the same marks
\* finds nothing to remove.
C14_CommitDescending ==
    commitMarks[1] # <<>> =>
        LET M == commitMarks[1][1]
            visited == M \ ToVisit(1)
        IN  /\ ToVisit(1) \subseteq M
            /\ \A j \in 1..(Len(todo[1]) - 1) : todo[1][j] > todo[1][j + 1]
            /\ \A i \in visited : \A j \in ToVisit(1) : j < i
            /\ \A i \in visited : FileOf(i) \notin store
            /\ pc[1] # "crashed"
            /\ pc[1] = "done" => \A i \in M : FileOf(i) \notin store

C14_Witness ==
    /\ commitMarks[1] = <<{0, 1}>>
    /\ pc[1] = "cleanup"
    /\ todo[1] = <<0>>
    /\ store = {1}

\* ---------------------------------------------------------------------
\* C15: a removal that fails during the commit is passed over: a session
\* that has entered its commit and ended has ended regularly, and none of
\* the files of its marked indices is left.
C15_FailedDeleteSkipped ==
    \A s \in Sessions :
        (Ended(s) /\ commitMarks[s] # <<>>)
        => /\ pc[s] = "done"
           /\ \A i \in commitMarks[s][1] : FileOf(i) \notin store

\* ---------------------------------------------------------------------
\* C16: the commit comes before the release of the connection: whenever
\* the server has closed the connection of a session, the commit of that
\* session is complete.
C16_CommitBeforeRelease ==
    \A s \in Sessions : closed[s] => pc[s] = "done"

\* ---------------------------------------------------------------------
\* The lines of a message after its first empty line.
RECURSIVE AfterBlank(_)
AfterBlank(lines) ==
    IF lines = <<>> THEN <<>>
    ELSE IF Head(lines) = "" THEN Tail(lines)
    ELSE AfterBlank(Tail(lines))

\* C18: TOP n k of an unmarked message in range, k >= 0, replies with the
\* lines of the message before its first empty line, then at most the
\* first k of the lines after that empty line, then the terminator.
C18_TopHeaderAndBody ==
    (/\ Handled("TOP", "TRANSACTION")
     /\ ~BadNumber("TOP", ev.args)
     /\ ev.args[1].val - 1 \in UnmarkedSet(ev.s)
     /\ ev.args[2].val >= 0)
    => LET lines == splitlines(SnapshotOf(ev.s)[ev.args[1].val])
           body == AfterBlank(lines)
           k == ev.args[2].val
           sent == IF k < Len(body) THEN k ELSE Len(body)
       IN  ev.reply = <<"+OK Top of message follows">> \o HeaderOf(lines)
                          \o SubSeq(body, 1, sent) \o <<".">>

\* ---------------------------------------------------------------------
\* C19: in AUTH every verb other than USER, PASS and QUIT gets a failure
\* reply and leaves the session in AUTH with no mark; a session in AUTH has
\* no mark at any time, and one that ends in AUTH leaves the store as its
\* snapshot found it.
C19_AuthRejectsOtherVerbs ==
    /\ \A verb \in (NoArgVerbs \cup IndexVerbs \cup {"TOP"}) \ {"QUIT"} :
           Handled(verb, "AUTH")
           => /\ IsErr(ev.reply)
              /\ state[ev.s] = "AUTH"
              /\ deleted[ev.s] = {}
              /\ Open(ev.s)
    /\ \A s \in Sessions : state[s] = "AUTH" => deleted[s] = {}
    /\ (Ended(1) /\ state[1] = "AUTH") => store = Enumerated(1)

C19_Witness ==
    /\ Handled("DELE", "AUTH")
    /\ ev.args = <<Num(1)>>
    /\ Len(messages[ev.s]) >= 1
    /\ IsErr(ev.reply)

\* ---------------------------------------------------------------------
\* The reply of the TRANSACTION handler to a line, from a snapshot and a
\* set of marks alone.
ReplyFrom(snapshot, marks, verb, args) ==
    handle_transaction([state |-> "TRANSACTION", username |-> USERNAME,
                        messages |-> snapshot, deleted |-> marks],
                       verb, args).lines

\* C20: with two sessions over one mailbox, the reply of a session to STAT,
\* LIST, UIDL, RETR or TOP is the one its own snapshot and its own marks
\* give, whatever the other session has marked, reset or committed.
C20_RepliesFromOwnState ==
    \A verb \in {"STAT", "LIST", "UIDL", "RETR", "TOP"} :
        (Handled(verb, "TRANSACTION") /\ ~ev.raised)
        => /\ ev.reply = ReplyFrom(SnapshotOf(ev.s), ev.before.deleted,
                                   verb, ev.args)
           /\ deleted[ev.s] = ev.before.deleted
           /\ messages[ev.s] = SnapshotOf(ev.s)

\* A session answers STAT with a message that the commit of the other
\* session has already removed from the store, and that the other session
\* had marked.
C20_Witness ==
    /\ Handled("STAT", "TRANSACTION")
    /\ ev.s = 1
    /\ pc[2] = "done"
    /\ commitMarks[2] = <<{0}>>
    /\ names[1] # <<>>
    /\ names[1][1] \notin store
    /\ deleted[1] = {}
    /\ ev.reply = StatReply(SnapshotOf(1), {})

\* ---------------------------------------------------------------------
\* C17: however the byte stream of a client is split into reads, the
\* commands handled, the replies sent and the files left when the session
\* has ended are those of the same stream arriving in one read.
C17_SplitsAgree ==
    (/\ wire.kind = "on"
     /\ wire.pc["whole"] = "done"
     /\ wire.pc["split"] = "done")
    => /\ wire.log["split"] = wire.log["whole"]
       /\ wire.files["split"] = wire.files["whole"]

\* ---------------------------------------------------------------------
\* The verbs that only read the session.
ReadingVerbs == {"NOOP", "STAT", "LIST", "UIDL", "RETR", "TOP"}

\* One step, for session s: a snapshot once loaded stays as it is; a
\* reading verb with well-formed arguments keeps the state, the username,
\* the marks and the connection; the marks change only by DELE or RSET.
C21_Frame(s) ==
    /\ pc[s] \notin {"none", "init"} => messages'[s] = messages[s]
    /\ (/\ ev'.kind = "cmd"
        /\ ev'.s = s
        /\ ev'.verb \in ReadingVerbs
        /\ ~BadNumber(ev'.verb, ev'.args))
       => /\ state'[s] = state[s]
          /\ username'[s] = username[s]
          /\ deleted'[s] = deleted[s]
          /\ closed'[s] = closed[s]
    /\ deleted'[s] # deleted[s]
       => /\ ev'.kind = "cmd"
          /\ ev'.s = s
          /\ ev'.verb \in {"DELE", "RSET"}

\* C21: the snapshot of a session is in every state what it was at the
\* start of the session; NOOP, STAT, LIST, UIDL, RETR and TOP with
\* well-formed arguments leave the state, the username and the marks as
\* they are; only DELE and RSET change the marks.
C21_SnapshotAndFrame == [][\A s \in Sessions : C21_Frame(s)]_vars

\* RETR of a message in range, answered, in a session that holds a mark
\* and whose snapshot still has every message loaded at its start.
C21_Witness ==
    /\ Handled("RETR", "TRANSACTION")
    /\ IsOk(ev.reply)
    /\ deleted[ev.s] # {}
    /\ deleted[ev.s] = ev.before.deleted
    /\ username[ev.s] = USERNAME
    /\ messages[ev.s] = SnapshotOf(ev.s)
    /\ Len(messages[ev.s]) = MaxName

====
